---- MODULE Spec2Model ----
(***************************************************************************)
(* Inventory application (src/src/App.tsx, with the drag-and-drop catalog  *)
(* of src/unnamed/part_001): the React component's state, its handlers,    *)
(* and the Supabase tables inventory_state and area_inventories.           *)
(*                                                                         *)
(* Indices are the code's 0-based indices; At/Splice/InsertAt/SetIndex     *)
(* translate them to TLA+ sequences.                                       *)
(***************************************************************************)
EXTENDS Integers, Sequences, FiniteSets, TLC

\* ------------------------------------------------------------------ bounds

\* User operations explored after a stored document was loaded.
MaxOps == 3
\* User operations explored after the 4 x 3 seed was adopted.
MaxSeedOps == 1
\* Asynchronous calls in flight at once.
MaxCalls == 2

\* ------------------------------------------------------- JavaScript values

\* An array hole / undefined cell (cp[r][c] = value with c past the end).
Undefined == -9999
\* What JSON.stringify writes for an undefined array element.
JsonNull == -9998

\* Number(x) || 0 on a stored cell (totals, record detail).
NumberOr0(x) == IF x = Undefined \/ x = JsonNull THEN 0 ELSE x

\* x ?? 0
Coalesce0(x) == IF x = Undefined \/ x = JsonNull THEN 0 ELSE x

\* arr[i], undefined when i is out of range
At(arr, i) == IF i >= 0 /\ i < Len(arr) THEN arr[i + 1] ELSE Undefined

\* arr.filter((_, i) => i !== k)
FilterIndex(arr, k) ==
  [j \in 1..(IF k >= 0 /\ k < Len(arr) THEN Len(arr) - 1 ELSE Len(arr)) |->
     IF k >= 0 /\ k < Len(arr) /\ j > k THEN arr[j + 1] ELSE arr[j]]

\* clone = arr.slice(); clone.splice(k, 1); return clone
Splice1(arr, k) ==
  [j \in 1..(IF k >= 0 /\ k < Len(arr) THEN Len(arr) - 1 ELSE Len(arr)) |->
     IF k >= 0 /\ k < Len(arr) /\ j > k THEN arr[j + 1] ELSE arr[j]]

\* arr.splice(k, 0, x): k is clamped to the length
InsertAt(arr, k, x) ==
  LET p == IF k > Len(arr) THEN Len(arr) ELSE k
  IN  [j \in 1..(Len(arr) + 1) |->
         IF j <= p THEN arr[j] ELSE IF j = p + 1 THEN x ELSE arr[j - 1]]

\* arr[k] = v on a copy: past the end the array grows, leaving holes
SetIndex(arr, k, v) ==
  [j \in 1..(IF k + 1 > Len(arr) THEN k + 1 ELSE Len(arr)) |->
     IF j = k + 1 THEN v ELSE IF j <= Len(arr) THEN arr[j] ELSE Undefined]

\* JSON.stringify of a matrix row: undefined elements become null
JsonRow(row) == [j \in 1..Len(row) |-> IF row[j] = Undefined THEN JsonNull ELSE row[j]]

\* The body of the upsert: the state as JSON.
ToJson(ns) ==
  [areas |-> ns.areas, items |-> ns.items,
   quantities |-> [r \in 1..Len(ns.quantities) |-> JsonRow(ns.quantities[r])]]

RECURSIVE SumSeq(_)
SumSeq(s) == IF Len(s) = 0 THEN 0 ELSE NumberOr0(s[1]) + SumSeq(Tail(s))

\* ------------------------------------------------------------------ strings

\* String.prototype.trim on the texts the exploration types.
Trim(s) ==
  CASE s = " Pool " -> "Pool"
    [] s = "  "     -> ""
    [] s = "Mop "   -> "Mop"
    [] OTHER        -> s

\* Faulty variant: a comparison that forgets toLowerCase()
ToLowerCase_identity(s) == s

\* String.prototype.toLowerCase on the names the exploration uses.
ToLowerCase(s) ==
  CASE s = "Broom"   -> "broom"
    [] s = "BROOM"   -> "broom"
    [] s = "Towels"  -> "towels"
    [] s = "Pencils" -> "pencils"
    [] s = "Mop"     -> "mop"
    [] OTHER         -> s

\* ------------------------------------------------------------------- state

VARIABLES
  areas,        \* useState<string[]>
  items,        \* useState<Item[]>
  quantities,   \* useState<number[][]>, items x areas
  loading,      \* useState(true)
  saving,       \* useState(false)
  records,      \* useState<AreaRecord[]>
  recLoading,   \* useState(false)
  recordDetail, \* useState<AreaRecord | null>: <<>> or <<record>>
  areaIdx,      \* useState(0)
  dateISO,      \* useState(todayISO())
  localStorage, \* window.localStorage of the page's origin: <<>> or <<data>>
  remoteState,  \* table inventory_state, row id = STATE_ID: <<>> or <<data>>
  remoteHist,   \* table area_inventories, in insertion order
  calls,        \* the asynchronous calls in flight, oldest first
  boot,         \* where the initial load effect stands
  lastOp,       \* the handler or continuation that ran last
  prev,         \* what that handler found when it started
  alertMsg,     \* the text of the alert() that handler showed, "" if none
  confirmMsg,   \* the confirm() that handler showed: <<>> or <<text, name>>
  budget,       \* user operations left to explore
  stateWrites,  \* upserts of inventory_state issued so far
  inserts,      \* inserts into area_inventories issued so far
  edits,        \* quantity edits made since an upsert was last issued
  writeFailed   \* some upsert a handler issued has been refused

vars == <<areas, items, quantities, loading, saving, records, recLoading,
          recordDetail, areaIdx, dateISO, localStorage, remoteState, remoteHist,
          calls, boot, lastOp, prev, alertMsg, confirmMsg, budget, stateWrites, inserts,
          edits, writeFailed>>

STATE_ID == "main"

\* The seed of the initial load effect.
seed ==
  [areas |-> <<"Kitchen", "Spa", "Front desk", "Office">>,
   items |-> <<[name |-> "Broom", threshold |-> 2],
               [name |-> "Towels", threshold |-> 10],
               [name |-> "Pencils", threshold |-> 5]>>,
   quantities |-> <<<<3, 5, 0, 0>>, <<20, 40, 0, 0>>, <<0, 0, 0, 15>>>>]

\* todayISO()
Today == "2024-01-15"

\* Documents an earlier session left in inventory_state: one with a single
\* area and item, and one whose areas were all removed.
StoredDocs ==
  { [areas |-> <<"Kitchen">>,
     items |-> <<[name |-> "Broom", threshold |-> 2]>>,
     quantities |-> <<<<3>>>>],
    [areas |-> <<>>,
     items |-> <<[name |-> "Broom", threshold |-> 2],
                 [name |-> "Towels", threshold |-> 10]>>,
     quantities |-> <<<<>>, <<>>>>] }

\* A document found in localStorage when the page opens. The component never
\* calls localStorage.setItem; whatever is there was left by another script
\* of the origin.
CachedDoc ==
  [areas |-> <<"Spa">>,
   items |-> <<[name |-> "Broom", threshold |-> 2]>>,
   quantities |-> <<<<5>>>>]

NoOp == [op |-> "none", idx |-> -1, ok |-> TRUE]
Op(name, i, okay) == [op |-> name, idx |-> i, ok |-> okay]

\* The state a handler or continuation starts from.
Snapshot ==
  [areas |-> areas, items |-> items, quantities |-> quantities,
   records |-> records, recordDetail |-> recordDetail,
   remoteState |-> remoteState, remoteHist |-> remoteHist,
   localStorage |-> localStorage,
   calls |-> calls, saving |-> saving,
   stateWrites |-> stateWrites, inserts |-> inserts, edits |-> edits]
NoSnapshot == <<>>

\* The component as constructed (before its effects run), against a backend
\* that holds no document or one an earlier session wrote.
Init ==
  /\ areas = <<>>
  /\ items = <<>>
  /\ quantities = <<>>
  /\ loading = TRUE
  /\ saving = FALSE
  /\ records = <<>>
  /\ recLoading = FALSE
  /\ recordDetail = <<>>
  /\ areaIdx = 0
  /\ dateISO = Today
  /\ localStorage \in {<<>>, <<ToJson(CachedDoc)>>}
  /\ remoteState \in {<<>>} \cup {<<ToJson(d)>> : d \in StoredDocs}
  /\ remoteHist = <<>>
  /\ calls = <<>>
  /\ boot = "mount"
  /\ lastOp = NoOp
  /\ prev = NoSnapshot
  /\ alertMsg = ""
  /\ confirmMsg = <<>>
  /\ budget = 0
  /\ stateWrites = 0
  /\ inserts = 0
  /\ edits = 0
  /\ writeFailed = FALSE

\* -------------------------------------------------------------- async calls

\* One call in flight. kind: "persist" | "saveArea" | "refresh" | "delete";
\* pc: the request the call is waiting on.
\* ns, idx and date are what the handler's closure holds; id is the record a
\* delete names, or the id the backend gave the row a save flow inserted;
\* data is the answer of fetchAreaRecords, or the recordDetail the closure of
\* a delete holds; by is the handler whose await persist(ns) is pending.
Call(kind, pc, ns, idx, date, id) ==
  [kind |-> kind, pc |-> pc, ns |-> ns, idx |-> idx, date |-> date, id |-> id,
   data |-> <<>>, by |-> ""]

NoState == [areas |-> <<>>, items |-> <<>>, quantities |-> <<>>]

RemoveCall(k) == [j \in 1..(Len(calls) - 1) |-> IF j < k THEN calls[j] ELSE calls[j + 1]]
ReplaceCall(k, c) == [calls EXCEPT ![k] = c]

\* The current state as the handlers of the last render see it.
Current == [areas |-> areas, items |-> items, quantities |-> quantities]

\* What a handler may do: the page is shown (not the loading card), the last
\* handler has returned, and the exploration has operations left.
CanAct == ~loading /\ boot = "done" /\ lastOp = NoOp /\ budget > 0
CanCall == Len(calls) < MaxCalls

\* Faulty variant: a listing ordered by created_at ascending
fetchAreaRecords_oldestFirst(limit) ==
  LET n == Len(remoteHist)
      m == IF n < limit THEN n ELSE limit
  IN  [j \in 1..m |-> remoteHist[j]]

\* fetchAreaRecords(limit): order by created_at descending, limit rows
fetchAreaRecords(limit) ==
  LET n == Len(remoteHist)
      m == IF n < limit THEN n ELSE limit
  IN  [j \in 1..m |-> remoteHist[n + 1 - j]]

\* ------------------------------------------------------------- initial load

\* The two mount effects up to their first await: loadState() and
\* refreshRecords() are both sent.
mount ==
  /\ boot = "mount" /\ lastOp = NoOp
  /\ loading' = TRUE
  /\ recLoading' = TRUE
  /\ calls' = Append(calls, Call("refresh", "fetch", NoState, -1, "", -1))
  /\ boot' = "reading"
  /\ prev' = Snapshot
  /\ lastOp' = Op("mount", -1, TRUE)
  /\ UNCHANGED <<areas, items, quantities, saving, records, recordDetail, areaIdx,
                 dateISO, localStorage, writeFailed, confirmMsg, remoteState, remoteHist, alertMsg, budget, stateWrites, edits,
                 inserts>>

\* Faulty variant: a loadState that never finds the row
loadState_alwaysNull(readFails) == <<>>

\* loadState(): the row's data, or null when there is no row or the read failed
loadState(readFails) == IF readFails THEN <<>> ELSE remoteState

\* The load effect after loadState() answered.
loadDone(readFails) ==
  /\ boot = "reading" /\ lastOp = NoOp
  /\ LET remote == loadState(readFails) IN
       IF remote # <<>>
       THEN /\ areas' = remote[1].areas
            /\ items' = remote[1].items
            /\ quantities' = remote[1].quantities
            /\ loading' = FALSE
            /\ boot' = "done"
            /\ budget' = MaxOps
            /\ UNCHANGED stateWrites
       ELSE /\ areas' = seed.areas
            /\ items' = seed.items
            /\ quantities' = seed.quantities
            /\ boot' = "seeding"
            /\ stateWrites' = stateWrites + 1
            /\ UNCHANGED <<loading, budget>>
  /\ prev' = Snapshot
  /\ lastOp' = Op("loadState", -1, ~readFails)
  /\ UNCHANGED <<saving, records, recLoading, recordDetail, areaIdx, dateISO, localStorage, writeFailed, confirmMsg,
                 remoteState, remoteHist, calls, alertMsg, inserts, edits>>

\* Faulty variant: setLoading(false) inside the try: a failed seed write leaves the
\* loading card up
seedDone_fatal(writeOk) ==
  /\ boot = "seeding" /\ lastOp = NoOp
  /\ remoteState' = IF writeOk THEN <<ToJson(seed)>> ELSE remoteState
  /\ loading' = ~writeOk
  /\ boot' = "done"
  /\ budget' = MaxSeedOps
  /\ prev' = Snapshot
  /\ lastOp' = Op("seedState", -1, writeOk)
  /\ UNCHANGED <<areas, items, quantities, saving, records, recLoading,
                 recordDetail, areaIdx, dateISO, localStorage, writeFailed, confirmMsg, remoteHist, calls,
                 alertMsg, stateWrites, edits, inserts>>

\* saveState(seed) answered: a failure is only logged.
seedDone(writeOk) ==
  /\ boot = "seeding" /\ lastOp = NoOp
  /\ remoteState' = IF writeOk THEN <<ToJson(seed)>> ELSE remoteState
  /\ loading' = FALSE
  /\ boot' = "done"
  /\ budget' = MaxSeedOps
  /\ prev' = Snapshot
  /\ lastOp' = Op("seedState", -1, writeOk)
  /\ UNCHANGED <<areas, items, quantities, saving, records, recLoading,
                 recordDetail, areaIdx, dateISO, localStorage, writeFailed, confirmMsg, remoteHist, calls, alertMsg,
                 stateWrites, edits, inserts>>

\* The handler has returned and the component has rendered again; an alert
\* it showed has been dismissed.
render ==
  /\ lastOp # NoOp
  /\ lastOp' = NoOp
  /\ prev' = NoSnapshot
  /\ alertMsg' = ""
  /\ confirmMsg' = <<>>
  /\ UNCHANGED <<areas, items, quantities, loading, saving, records, recLoading,
                 recordDetail, areaIdx, dateISO, localStorage, writeFailed, remoteState, remoteHist, calls,
                 boot, budget, stateWrites, edits, inserts>>

\* ------------------------------------------------------------------ persist

\* Faulty variant: a persist that folds its state into a write still in
\* flight instead of starting another one
persistSend_coalesces(by, ns) ==
  /\ saving' = TRUE
  /\ calls' = IF \E k \in 1..Len(calls) : calls[k].pc = "upsert"
              THEN [k \in 1..Len(calls) |->
                      IF calls[k].pc = "upsert" THEN [calls[k] EXCEPT !.ns = ns]
                      ELSE calls[k]]
              ELSE Append(calls, [Call("persist", "upsert", ns, -1, "", -1) EXCEPT !.by = by])
  /\ stateWrites' = IF \E k \in 1..Len(calls) : calls[k].pc = "upsert"
                    THEN stateWrites ELSE stateWrites + 1
  /\ edits' = 0

\* persist(ns), called by the handler named by, up to its await:
\* setSaving(true), saveState(ns) sent.
persistSend(by, ns) ==
  /\ saving' = TRUE
  /\ calls' = Append(calls, [Call("persist", "upsert", ns, -1, "", -1) EXCEPT !.by = by])
  /\ stateWrites' = stateWrites + 1
  /\ edits' = 0

\* saveState answered a persist(): the finally clause clears the flag; on
\* an error the rejection propagates out of the handler, which catches nothing.
persistDone(k, writeOk) ==
  /\ lastOp = NoOp
  /\ k \in 1..Len(calls) /\ calls[k].kind = "persist"
  /\ remoteState' = IF writeOk THEN <<ToJson(calls[k].ns)>> ELSE remoteState
  /\ saving' = FALSE
  /\ calls' = RemoveCall(k)
  /\ prev' = Snapshot
  /\ lastOp' = Op("persistDone", -1, writeOk)
  /\ writeFailed' = (writeFailed \/ ~writeOk)
  /\ UNCHANGED <<areas, items, quantities, loading, records, recLoading,
                 recordDetail, areaIdx, dateISO, localStorage, confirmMsg, remoteHist, boot, alertMsg,
                 budget, stateWrites, edits, inserts>>

\* ---------------------------------------------------------- structural edits

Range(seq) == {seq[j] : j \in 1..Len(seq)}

\* Texts typed into the "New area name" box, the "New item name" box, the
\* threshold box and the rename prompts (<<>> is Cancel).
AreaTexts == {"  ", " Pool ", "Kitchen"}
ItemTexts == {"", "Mop ", "BROOM"}
Thresholds == {0, 4}
AreaAnswers == {<<>>, <<"  ">>, <<"Kitchen">>, <<"Spa">>, <<" Pool ">>}
ItemAnswers == {<<>>, <<"">>, <<"broom">>, <<"Mop ">>}

\* Faulty variant: a validation that alerts but does not return, so the
\* handler goes on to persist the state it has
Reject_persists(name, i, msg) ==
  /\ CanCall
  /\ prev' = Snapshot
  /\ lastOp' = Op(name, i, FALSE)
  /\ alertMsg' = msg
  /\ persistSend(name, Current)
  /\ UNCHANGED <<areas, items, quantities, loading, records, recLoading,
                 recordDetail, areaIdx, dateISO, localStorage, writeFailed, confirmMsg,
                 remoteState, remoteHist, boot, budget, inserts>>

\* A handler that returns after an alert (msg # "") or silently, having set
\* no state and sent nothing.
Reject(name, i, msg) ==
  /\ prev' = Snapshot
  /\ lastOp' = Op(name, i, FALSE)
  /\ alertMsg' = msg
  /\ UNCHANGED <<areas, items, quantities, loading, saving, records, recLoading,
                 recordDetail, areaIdx, dateISO, localStorage, writeFailed, confirmMsg, remoteState, remoteHist, calls,
                 boot, budget, stateWrites, edits, inserts>>

\* Faulty variant: a handler that persists the state of its closure instead
\* of ns
Commit_staleWrite(name, i, ns) ==
  /\ CanCall
  /\ areas' = ns.areas
  /\ items' = ns.items
  /\ quantities' = ns.quantities
  /\ persistSend(name, Current)
  /\ budget' = budget - 1
  /\ prev' = Snapshot
  /\ lastOp' = Op(name, i, TRUE)
  /\ UNCHANGED <<loading, records, recLoading, recordDetail, areaIdx, dateISO,
                 localStorage, writeFailed, confirmMsg, remoteState, remoteHist, boot, alertMsg,
                 inserts>>

\* A structural handler's tail: set the state to ns, then await persist(ns).
Commit(name, i, ns) ==
  /\ CanCall
  /\ areas' = ns.areas
  /\ items' = ns.items
  /\ quantities' = ns.quantities
  /\ persistSend(name, ns)
  /\ budget' = budget - 1
  /\ prev' = Snapshot
  /\ lastOp' = Op(name, i, TRUE)
  /\ UNCHANGED <<loading, records, recLoading, recordDetail, areaIdx, dateISO, localStorage, writeFailed, confirmMsg,
                 remoteState, remoteHist, boot, alertMsg, inserts>>

\* A handler that returns because its confirm() was declined.
Declined(name, i, text) ==
  /\ prev' = Snapshot
  /\ lastOp' = Op(name, i, FALSE)
  /\ confirmMsg' = text
  /\ UNCHANGED <<areas, items, quantities, loading, saving, records, recLoading,
                 recordDetail, areaIdx, dateISO, localStorage, writeFailed, remoteState,
                 remoteHist, calls, boot, alertMsg, budget, stateWrites, edits,
                 inserts>>

\* A structural handler whose confirm() was accepted: set the state to ns,
\* then await persist(ns).
Confirmed(name, i, ns, text) ==
  /\ CanCall
  /\ areas' = ns.areas
  /\ items' = ns.items
  /\ quantities' = ns.quantities
  /\ persistSend(name, ns)
  /\ confirmMsg' = text
  /\ budget' = budget - 1
  /\ prev' = Snapshot
  /\ lastOp' = Op(name, i, TRUE)
  /\ UNCHANGED <<loading, records, recLoading, recordDetail, areaIdx, dateISO,
                 localStorage, writeFailed, remoteState, remoteHist, boot, alertMsg, inserts>>

\* Faulty variant: an addArea that appends the name but no column
addAreaNs_noColumn(name) ==
  [areas |-> Append(areas, name), items |-> items, quantities |-> quantities]

addAreaNs(name) ==
  [areas |-> Append(areas, name),
   items |-> items,
   quantities |-> [r \in 1..Len(quantities) |-> Append(quantities[r], 0)]]

addArea(text) ==
  /\ CanAct
  /\ LET name == Trim(text) IN
       IF name = "" THEN Reject("addArea", -1, "Area name is required.")
       ELSE IF name \in Range(areas) THEN Reject("addArea", -1, "Area already exists.")
       ELSE Commit("addArea", Len(areas), addAreaNs(name))

addItemNs(name, th) ==
  [areas |-> areas,
   items |-> Append(items, [name |-> name, threshold |-> th]),
   quantities |-> Append(quantities, [c \in 1..Len(areas) |-> 0])]

addItem(text, th) ==
  /\ CanAct
  /\ LET name == Trim(text) IN
       IF name = "" THEN Reject("addItem", -1, "Item name is required.")
       ELSE IF \E j \in 1..Len(items) : ToLowerCase(items[j].name) = ToLowerCase(name)
       THEN Reject("addItem", -1, "Item already exists.")
       ELSE Commit("addItem", Len(items), addItemNs(name, th))

\* Faulty variant: a removeArea that forgets to splice the column out of the rows
removeAreaNs_keepsColumn(c) ==
  [areas |-> FilterIndex(areas, c), items |-> items, quantities |-> quantities]

\* Faulty variant: a removeArea that always splices the first column
removeAreaNs_firstColumn(c) ==
  [areas |-> FilterIndex(areas, c),
   items |-> items,
   quantities |-> [r \in 1..Len(quantities) |-> Splice1(quantities[r], 0)]]

removeAreaNs(c) ==
  [areas |-> FilterIndex(areas, c),
   items |-> items,
   quantities |-> [r \in 1..Len(quantities) |-> Splice1(quantities[r], c)]]

\* quantities.reduce((a, row) => a + (Number(row?.[c]) || 0), 0): colTotal of
\* removeArea (part_001) and an entry of colTotals
colTotalOf(matrix, c) == SumSeq([r \in 1..Len(matrix) |-> At(matrix[r], c)])
colTotal(c) == colTotalOf(quantities, c)

\* grand: colTotals.reduce((a, b) => a + b, 0), colTotals having one entry per area
grandOf(areaList, matrix) ==
  SumSeq([j \in 1..Len(areaList) |-> colTotalOf(matrix, j - 1)])
grand == grandOf(areas, quantities)

\* colTotals: one total per area
colTotals == [j \in 1..Len(areas) |-> colTotalOf(quantities, j - 1)]

\* rowTotals: one total per item, (quantities[r] || []).reduce(...)
rowTotals ==
  [r \in 1..Len(items) |-> SumSeq(IF r <= Len(quantities) THEN quantities[r] ELSE <<>>)]

removeArea(c, confirmed) ==
  /\ CanAct
  /\ c \in 0..(Len(areas) - 1)
  /\ LET text == <<"Delete area? Quantities will be discarded.", areas[c + 1]>>
     IN  IF ~confirmed THEN Declined("removeArea", c, text)
         ELSE Confirmed("removeArea", c, removeAreaNs(c), text)

removeItemNs(r) ==
  [areas |-> areas,
   items |-> FilterIndex(items, r),
   quantities |-> FilterIndex(quantities, r)]

\* rowTotal of removeItem (part_001) and an entry of rowTotals
rowTotal(r) == SumSeq(IF r >= 0 /\ r < Len(quantities) THEN quantities[r + 1] ELSE <<>>)

removeItem(r, confirmed) ==
  /\ CanAct
  /\ r \in 0..(Len(items) - 1)
  /\ LET text == <<"Delete item?", items[r + 1].name>>
     IN  IF ~confirmed THEN Declined("removeItem", r, text)
         ELSE Confirmed("removeItem", r, removeItemNs(r), text)

\* Faulty variant: a renameArea that moves the renamed area to the end of the list
renameAreaNs_movesToEnd(idx, next) ==
  [areas |-> Append(FilterIndex(areas, idx), next),
   items |-> items,
   quantities |-> quantities]

renameAreaNs(idx, next) ==
  [areas |-> [j \in 1..Len(areas) |-> IF j = idx + 1 THEN next ELSE areas[j]],
   items |-> items,
   quantities |-> quantities]

renameArea(idx, answer) ==
  /\ CanAct
  /\ idx \in 0..(Len(areas) - 1)
  /\ LET current == areas[idx + 1]
         next == IF answer = <<>> THEN "" ELSE Trim(answer[1])
     IN  IF next = "" \/ next = current THEN Reject("renameArea", idx, "")
         ELSE IF next \in Range(areas)
         THEN Reject("renameArea", idx, "Area name already in use.")
         ELSE Commit("renameArea", idx, renameAreaNs(idx, next))

renameItemNs(idx, next) ==
  [areas |-> areas,
   items |-> [j \in 1..Len(items) |->
                IF j = idx + 1 THEN [items[j] EXCEPT !.name = next] ELSE items[j]],
   quantities |-> quantities]

renameItem(idx, answer) ==
  /\ CanAct
  /\ idx \in 0..(Len(items) - 1)
  /\ LET current == items[idx + 1].name
         next == IF answer = <<>> THEN "" ELSE Trim(answer[1])
     IN  IF next = "" \/ next = current THEN Reject("renameItem", idx, "")
         ELSE IF \E j \in 1..Len(items) :
                   j # idx + 1 /\ ToLowerCase(items[j].name) = ToLowerCase(next)
         THEN Reject("renameItem", idx, "Item name already in use.")
         ELSE Commit("renameItem", idx, renameItemNs(idx, next))

\* ------------------------------------------------------------ drag and drop

reorderArray(arr, start, end) == InsertAt(Splice1(arr, start), end, At(arr, start))

reorderColumns(matrix, start, end) ==
  [r \in 1..Len(matrix) |->
     InsertAt(Splice1(matrix[r], start), end, At(matrix[r], start))]

reorderRows(rows, start, end) == reorderArray(rows, start, end)

\* One drag gesture: onDragStart(type, dragFrom) on a row of the catalog, then
\* onDrop(index) on a row of either list, then onDragEnd.
onDrop(dragType, dragFrom, index) ==
  /\ CanAct
  /\ dragFrom \in 0..((IF dragType = "area" THEN Len(areas) ELSE Len(items)) - 1)
  /\ index \in 0..((IF Len(areas) > Len(items) THEN Len(areas) ELSE Len(items)) - 1)
  /\ IF index = dragFrom THEN Reject("onDrop", index, "")
     ELSE IF dragType = "area"
     THEN Commit("onDropArea", index,
                 [areas |-> reorderArray(areas, dragFrom, index),
                  items |-> items,
                  quantities |-> reorderColumns(quantities, dragFrom, index)])
     ELSE Commit("onDropItem", index,
                 [areas |-> areas,
                  items |-> reorderRows(items, dragFrom, index),
                  quantities |-> reorderRows(quantities, dragFrom, index)])

\* ----------------------------------------------------------- quantity edits

\* Texts typed into a quantity input.
QtyTexts == {"", "7", "-3"}

\* Number(e.target.value): NaN for a text that is no number
NaN == -9997
Number(text) ==
  CASE text = ""   -> 0
    [] text = "7"  -> 7
    [] text = "-3" -> -3
    [] OTHER       -> NaN

\* n || 0
OrZero(n) == IF n = NaN \/ n = 0 THEN 0 ELSE n

\* The updater of setQtyCell and of the matrix cell's onChange.
setQtyCell(r, c, value) ==
  [quantities EXCEPT ![r + 1] = SetIndex(quantities[r + 1], c, value)]

\* Faulty variant: an onChange that also persists the edited state
QtyChange_flushes(name, r, c, text) ==
  /\ CanAct /\ CanCall
  /\ r \in 0..(Len(items) - 1) /\ r < Len(quantities)
  /\ OrZero(Number(text)) # Coalesce0(At(quantities[r + 1], c))
  /\ quantities' = setQtyCell(r, c, OrZero(Number(text)))
  /\ persistSend(name, [Current EXCEPT !.quantities = setQtyCell(r, c, OrZero(Number(text)))])
  /\ budget' = budget - 1
  /\ prev' = Snapshot
  /\ lastOp' = Op(name, c, TRUE)
  /\ UNCHANGED <<areas, items, loading, records, recLoading, recordDetail,
                 areaIdx, dateISO, localStorage, writeFailed, confirmMsg, remoteState, remoteHist, boot,
                 alertMsg, inserts>>

\* onChange of a quantity input: it fires when the typed text changes what the
\* input shows (quantities[r]?.[c] ?? 0).
QtyChange(name, r, c, text) ==
  /\ CanAct
  /\ r \in 0..(Len(items) - 1) /\ r < Len(quantities)
  /\ OrZero(Number(text)) # Coalesce0(At(quantities[r + 1], c))
  /\ quantities' = setQtyCell(r, c, OrZero(Number(text)))
  /\ edits' = edits + 1
  /\ budget' = budget - 1
  /\ prev' = Snapshot
  /\ lastOp' = Op(name, c, TRUE)
  /\ UNCHANGED <<areas, items, loading, saving, records, recLoading, recordDetail,
                 areaIdx, dateISO, localStorage, writeFailed, confirmMsg, remoteState, remoteHist, calls, boot, alertMsg,
                 stateWrites, inserts>>

\* Area view: the input of row r writes column areaIdx.
areaQtyChange(r, text) == QtyChange("areaQtyChange", r, areaIdx, text)

\* Matrix view: the input of cell (r, c), one per area.
matrixQtyChange(r, c, text) ==
  /\ c \in 0..(Len(areas) - 1)
  /\ QtyChange("matrixQtyChange", r, c, text)

\* Matrix view: onBlur of a cell persists the rendered state.
matrixBlur ==
  /\ CanAct /\ CanCall
  /\ Len(items) > 0 /\ Len(areas) > 0
  /\ persistSend("matrixBlur", Current)
  /\ budget' = budget - 1
  /\ prev' = Snapshot
  /\ lastOp' = Op("matrixBlur", -1, TRUE)
  /\ UNCHANGED <<areas, items, quantities, loading, records, recLoading,
                 recordDetail, areaIdx, dateISO, localStorage, writeFailed, confirmMsg, remoteState, remoteHist, boot,
                 alertMsg, inserts>>

\* The area select offers one option per area.
setAreaIdx(i) ==
  /\ CanAct
  /\ i \in 0..(Len(areas) - 1) /\ i # areaIdx
  /\ areaIdx' = i
  /\ budget' = budget - 1
  /\ prev' = Snapshot
  /\ lastOp' = Op("setAreaIdx", i, TRUE)
  /\ UNCHANGED <<areas, items, quantities, loading, saving, records, recLoading,
                 recordDetail, dateISO, localStorage, writeFailed, confirmMsg, remoteState, remoteHist, calls, boot,
                 alertMsg, stateWrites, edits, inserts>>

\* Dates the date input is set to ("" when it is cleared).
DateTexts == {"", "2024-01-10"}

setDateISO(d) ==
  /\ CanAct
  /\ d # dateISO
  /\ dateISO' = d
  /\ budget' = budget - 1
  /\ prev' = Snapshot
  /\ lastOp' = Op("setDateISO", -1, TRUE)
  /\ UNCHANGED <<areas, items, quantities, loading, saving, records, recLoading,
                 recordDetail, areaIdx, localStorage, writeFailed, confirmMsg, remoteState, remoteHist,
                 calls, boot, alertMsg, stateWrites, edits, inserts>>

\* ------------------------------------------------------ area-dated save flow

\* fetchAreaRecords' default and refreshRecords' argument
RecordLimit == 20

\* Faulty variant: a guard that lets any index through
Truthy_always(arr, i) == TRUE

\* !arr[i] is false: the index is in range and the string is not empty
Truthy(arr, i) == i >= 0 /\ i < Len(arr) /\ arr[i + 1] # ""

\* saveAreaInventory up to its first await.
saveAreaInventory ==
  /\ CanAct
  /\ IF ~Truthy(areas, areaIdx)
     THEN Reject("saveAreaInventory", areaIdx, "Choose an area.")
     ELSE IF dateISO = ""
     THEN Reject("saveAreaInventory", areaIdx, "Pick a date.")
     ELSE /\ CanCall
          /\ saving' = TRUE
          /\ calls' = Append(calls, Call("saveArea", "upsert", Current, areaIdx, dateISO, -1))
          /\ stateWrites' = stateWrites + 1
          /\ edits' = 0
          /\ budget' = budget - 1
          /\ prev' = Snapshot
          /\ lastOp' = Op("saveAreaInventory", areaIdx, TRUE)
          /\ UNCHANGED <<areas, items, quantities, loading, records, recLoading,
                         recordDetail, areaIdx, dateISO, localStorage, writeFailed, confirmMsg, remoteState, remoteHist,
                         boot, alertMsg, inserts>>

\* Faulty variant: a record that always reads the first column of the matrix
areaRecord_firstColumn(call) ==
  [area_name |-> call.ns.areas[call.idx + 1],
   area_index |-> call.idx,
   inventory_date |-> call.date,
   items |-> [r \in 1..Len(call.ns.items) |->
                [name |-> call.ns.items[r].name,
                 qty |-> Coalesce0(IF r <= Len(call.ns.quantities)
                                   THEN At(call.ns.quantities[r], 0)
                                   ELSE Undefined)]]]

\* The record saveAreaInventory builds from its closure once saveState resolved.
areaRecord(call) ==
  [area_name |-> call.ns.areas[call.idx + 1],
   area_index |-> call.idx,
   inventory_date |-> call.date,
   items |-> [r \in 1..Len(call.ns.items) |->
                [name |-> call.ns.items[r].name,
                 qty |-> Coalesce0(IF r <= Len(call.ns.quantities)
                                   THEN At(call.ns.quantities[r], call.idx)
                                   ELSE Undefined)]]]

\* Faulty variant: a save flow with a finally clause but no catch: nothing is reported
saveFailed_silent(k, name) ==
  /\ alertMsg' = ""
  /\ saving' = FALSE
  /\ calls' = RemoveCall(k)
  /\ prev' = Snapshot
  /\ lastOp' = Op(name, calls[k].idx, FALSE)

\* A handler's catch and finally after a failed await.
saveFailed(k, name) ==
  /\ alertMsg' = "Could not save. Check Supabase credentials/RLS."
  /\ saving' = FALSE
  /\ calls' = RemoveCall(k)
  /\ prev' = Snapshot
  /\ lastOp' = Op(name, calls[k].idx, FALSE)

\* saveState(stateToSave) answered.
saveStateDone(k, writeOk) ==
  /\ lastOp = NoOp
  /\ k \in 1..Len(calls) /\ calls[k].kind = "saveArea" /\ calls[k].pc = "upsert"
  /\ IF writeOk
     THEN /\ remoteState' = <<ToJson(calls[k].ns)>>
          /\ calls' = ReplaceCall(k, [calls[k] EXCEPT !.pc = "insert"])
          /\ prev' = Snapshot
          /\ lastOp' = Op("saveStateDone", calls[k].idx, TRUE)
          /\ UNCHANGED <<saving, alertMsg>>
     ELSE /\ saveFailed(k, "saveStateDone")
          /\ UNCHANGED remoteState
  /\ writeFailed' = (writeFailed \/ ~writeOk)
  /\ UNCHANGED <<areas, items, quantities, loading, records, recLoading,
                 recordDetail, areaIdx, dateISO, localStorage, confirmMsg, remoteHist, boot, budget,
                 stateWrites, edits, inserts>>

\* Faulty variant: an insert that is an upsert on (area_index, inventory_date):
\* a second save of the same area and date rewrites the stored row
insertAreaRecord_upserts(rec) ==
  IF \E j \in 1..Len(remoteHist) :
       /\ remoteHist[j].area_index = rec.area_index
       /\ remoteHist[j].inventory_date = rec.inventory_date
  THEN [j \in 1..Len(remoteHist) |->
          IF /\ remoteHist[j].area_index = rec.area_index
             /\ remoteHist[j].inventory_date = rec.inventory_date
          THEN [id |-> remoteHist[j].id, created_at |-> inserts + 1,
                area_name |-> rec.area_name, area_index |-> rec.area_index,
                inventory_date |-> rec.inventory_date, items |-> rec.items]
          ELSE remoteHist[j]]
  ELSE Append(remoteHist,
              [id |-> inserts + 1, created_at |-> inserts + 1,
               area_name |-> rec.area_name, area_index |-> rec.area_index,
               inventory_date |-> rec.inventory_date, items |-> rec.items])

\* The row insertAreaRecord adds: the server assigns id and created_at.
insertAreaRecord(rec) ==
  Append(remoteHist,
         [id |-> inserts + 1, created_at |-> inserts + 1,
          area_name |-> rec.area_name, area_index |-> rec.area_index,
          inventory_date |-> rec.inventory_date, items |-> rec.items])

\* Faulty variant: a flow whose failed insert still leaves a row in the store
insertDone_insertsAnyway(k, insertOk) ==
  /\ lastOp = NoOp
  /\ k \in 1..Len(calls) /\ calls[k].kind = "saveArea" /\ calls[k].pc = "insert"
  /\ remoteHist' = insertAreaRecord(areaRecord(calls[k]))
  /\ inserts' = inserts + 1
  /\ IF insertOk
     THEN /\ recLoading' = TRUE
          /\ calls' = ReplaceCall(k, [calls[k] EXCEPT !.pc = "fetch", !.id = inserts + 1])
          /\ prev' = Snapshot
          /\ lastOp' = Op("insertDone", calls[k].idx, TRUE)
          /\ UNCHANGED <<saving, alertMsg>>
     ELSE /\ saveFailed(k, "insertDone")
          /\ UNCHANGED recLoading
  /\ UNCHANGED <<areas, items, quantities, loading, records, recordDetail,
                 areaIdx, dateISO, localStorage, writeFailed, confirmMsg, remoteState, boot, budget,
                 stateWrites, edits>>

\* insertAreaRecord answered; on success refreshRecords() starts.
insertDone(k, insertOk) ==
  /\ lastOp = NoOp
  /\ k \in 1..Len(calls) /\ calls[k].kind = "saveArea" /\ calls[k].pc = "insert"
  /\ IF insertOk
     THEN /\ remoteHist' = insertAreaRecord(areaRecord(calls[k]))
          /\ inserts' = inserts + 1
          /\ recLoading' = TRUE
          /\ calls' = ReplaceCall(k, [calls[k] EXCEPT !.pc = "fetch", !.id = inserts + 1])
          /\ prev' = Snapshot
          /\ lastOp' = Op("insertDone", calls[k].idx, TRUE)
          /\ UNCHANGED <<saving, alertMsg>>
     ELSE /\ saveFailed(k, "insertDone")
          /\ UNCHANGED <<remoteHist, inserts, recLoading>>
  /\ UNCHANGED <<areas, items, quantities, loading, records, recordDetail,
                 areaIdx, dateISO, localStorage, writeFailed, confirmMsg, remoteState, boot, budget, stateWrites, edits>>

\* The Refresh button.
refreshRecords ==
  /\ CanAct /\ CanCall
  /\ recLoading' = TRUE
  /\ calls' = Append(calls, Call("refresh", "fetch", NoState, -1, "", -1))
  /\ budget' = budget - 1
  /\ prev' = Snapshot
  /\ lastOp' = Op("refreshRecords", -1, TRUE)
  /\ UNCHANGED <<areas, items, quantities, loading, saving, records,
                 recordDetail, areaIdx, dateISO, localStorage, writeFailed, confirmMsg, remoteState, remoteHist, boot,
                 alertMsg, stateWrites, edits, inserts>>

\* The backend answers the select of fetchAreaRecords(20).
fetchAnswer(k, readOk) ==
  /\ lastOp = NoOp
  /\ k \in 1..Len(calls) /\ calls[k].pc = "fetch"
  /\ calls' = ReplaceCall(k, IF readOk
                             THEN [calls[k] EXCEPT !.pc = "fetched",
                                                   !.data = fetchAreaRecords(RecordLimit)]
                             ELSE [calls[k] EXCEPT !.pc = "fetchFailed"])
  /\ UNCHANGED <<areas, items, quantities, loading, saving, records, recLoading,
                 recordDetail, areaIdx, dateISO, localStorage, writeFailed, confirmMsg, remoteState, remoteHist, boot,
                 lastOp, prev, alertMsg, budget, stateWrites, edits, inserts>>

\* refreshRecords() after its await: setRecords on success, a warning on
\* failure; then, in saveAreaInventory, the "Saved inventory" alert and finally.
fetchDone(k) ==
  /\ lastOp = NoOp
  /\ k \in 1..Len(calls) /\ calls[k].pc \in {"fetched", "fetchFailed"}
  /\ records' = IF calls[k].pc = "fetched" THEN calls[k].data ELSE records
  /\ recLoading' = FALSE
  /\ IF calls[k].kind = "saveArea"
     THEN /\ alertMsg' = "Saved inventory"
          /\ saving' = FALSE
     ELSE UNCHANGED <<alertMsg, saving>>
  /\ calls' = RemoveCall(k)
  /\ prev' = Snapshot
  /\ lastOp' = Op(IF calls[k].kind = "saveArea" THEN "saveAreaDone" ELSE "refreshDone",
                  calls[k].idx, calls[k].pc = "fetched")
  /\ UNCHANGED <<areas, items, quantities, loading, recordDetail, areaIdx,
                 dateISO, localStorage, writeFailed, confirmMsg, remoteState, remoteHist, boot, budget, stateWrites, edits,
                 inserts>>

\* ------------------------------------------------------------------ records

\* The View button of the record at position i of the list.
viewRecord(i) ==
  /\ CanAct
  /\ i \in 1..Len(records) /\ recordDetail # <<records[i]>>
  /\ recordDetail' = <<records[i]>>
  /\ budget' = budget - 1
  /\ prev' = Snapshot
  /\ lastOp' = Op("viewRecord", records[i].id, TRUE)
  /\ UNCHANGED <<areas, items, quantities, loading, saving, records, recLoading,
                 areaIdx, dateISO, localStorage, writeFailed, confirmMsg, remoteState, remoteHist, calls, boot, alertMsg,
                 stateWrites, edits, inserts>>

\* The Delete button of the record at position i of the list.
deleteRecord(i, confirmed) ==
  /\ CanAct
  /\ i \in 1..Len(records)
  /\ confirmMsg' = <<"Delete this record?">>
  /\ IF ~confirmed
     THEN /\ prev' = Snapshot
          /\ lastOp' = Op("deleteRecord", records[i].id, FALSE)
          /\ UNCHANGED <<areas, items, quantities, loading, saving, records,
                         recLoading, recordDetail, areaIdx, dateISO, localStorage, writeFailed,
                         remoteState, remoteHist, calls, boot, alertMsg, budget,
                         stateWrites, edits, inserts>>
     ELSE /\ CanCall
          /\ calls' = Append(calls, [Call("delete", "delete", NoState, -1, "", records[i].id)
                                       EXCEPT !.data = recordDetail])
          /\ budget' = budget - 1
          /\ prev' = Snapshot
          /\ lastOp' = Op("deleteRecord", records[i].id, TRUE)
          /\ UNCHANGED <<areas, items, quantities, loading, saving, records,
                         recLoading, recordDetail, areaIdx, dateISO, localStorage, writeFailed, remoteState,
                         remoteHist, boot, alertMsg, stateWrites, edits, inserts>>

\* deleteAreaRecord(id) answered: setRecords filters the current list, while
\* recordDetail?.id === id reads the recordDetail of the render the handler
\* was created in.
deleteDone(k, deleteOk) ==
  /\ lastOp = NoOp
  /\ k \in 1..Len(calls) /\ calls[k].kind = "delete"
  /\ LET id == calls[k].id
         keep(x) == x.id # id
     IN  IF deleteOk
         THEN /\ remoteHist' = SelectSeq(remoteHist, keep)
              /\ records' = SelectSeq(records, keep)
              /\ recordDetail' = IF calls[k].data # <<>> /\ calls[k].data[1].id = id
                                 THEN <<>> ELSE recordDetail
              /\ UNCHANGED alertMsg
         ELSE /\ alertMsg' = "Could not delete record."
              /\ UNCHANGED <<remoteHist, records, recordDetail>>
  /\ calls' = RemoveCall(k)
  /\ prev' = Snapshot
  /\ lastOp' = Op("deleteDone", calls[k].id, deleteOk)
  /\ UNCHANGED <<areas, items, quantities, loading, saving, recLoading, areaIdx,
                 dateISO, localStorage, writeFailed, confirmMsg, remoteState, boot, budget, stateWrites, edits, inserts>>

\* ----------------------------------------------------------- specification

Next ==
  \/ mount
  \/ \E readFails \in BOOLEAN : loadDone(readFails)
  \/ \E writeOk \in BOOLEAN : seedDone(writeOk)
  \/ render
  \/ \E text \in AreaTexts : addArea(text)
  \/ \E text \in ItemTexts, th \in Thresholds : addItem(text, th)
  \/ \E c \in 0..3, confirmed \in BOOLEAN : removeArea(c, confirmed)
  \/ \E r \in 0..3, confirmed \in BOOLEAN : removeItem(r, confirmed)
  \/ \E idx \in 0..3, answer \in AreaAnswers : renameArea(idx, answer)
  \/ \E idx \in 0..3, answer \in ItemAnswers : renameItem(idx, answer)
  \/ \E t \in {"area", "item"}, from \in 0..3, index \in 0..3 : onDrop(t, from, index)
  \/ \E r \in 0..3, text \in QtyTexts : areaQtyChange(r, text)
  \/ \E r \in 0..3, c \in 0..3, text \in QtyTexts : matrixQtyChange(r, c, text)
  \/ matrixBlur
  \/ \E i \in 0..3 : setAreaIdx(i)
  \/ \E d \in DateTexts : setDateISO(d)
  \/ saveAreaInventory
  \/ refreshRecords
  \/ \E i \in 1..2 : viewRecord(i)
  \/ \E i \in 1..2, confirmed \in BOOLEAN : deleteRecord(i, confirmed)
  \/ \E k \in 1..MaxCalls, writeOk \in BOOLEAN : persistDone(k, writeOk)
  \/ \E k \in 1..MaxCalls, writeOk \in BOOLEAN : saveStateDone(k, writeOk)
  \/ \E k \in 1..MaxCalls, insertOk \in BOOLEAN : insertDone(k, insertOk)
  \/ \E k \in 1..MaxCalls, readOk \in BOOLEAN : fetchAnswer(k, readOk)
  \/ \E k \in 1..MaxCalls : fetchDone(k)
  \/ \E k \in 1..MaxCalls, deleteOk \in BOOLEAN : deleteDone(k, deleteOk)

Spec == Init /\ [][Next]_vars

\* The same component with the scheduling the runtime gives: effects run once
\* the component is mounted, an awaited request is answered or fails, and a
\* state change is followed by a render.
LiveSpec ==
  /\ Init /\ [][Next]_vars
  /\ WF_vars(mount)
  /\ WF_vars(\E readFails \in BOOLEAN : loadDone(readFails))
  /\ WF_vars(\E writeOk \in BOOLEAN : seedDone(writeOk))
  /\ WF_vars(render)

\* Rows earlier sessions left in area_inventories: as many as one listing shows.
OldRecords ==
  [j \in 1..RecordLimit |->
     [id |-> j, created_at |-> j, area_name |-> "Kitchen", area_index |-> 0,
      inventory_date |-> "2024-01-01", items |-> <<[name |-> "Broom", qty |-> 3]>>]]

\* The component opened against a backend whose history already fills a listing.
InitHist ==
  /\ areas = <<>>
  /\ items = <<>>
  /\ quantities = <<>>
  /\ loading = TRUE
  /\ saving = FALSE
  /\ records = <<>>
  /\ recLoading = FALSE
  /\ recordDetail = <<>>
  /\ areaIdx = 0
  /\ dateISO = Today
  /\ localStorage = <<>>
  /\ remoteState \in {<<ToJson(d)>> : d \in StoredDocs}
  /\ remoteHist = OldRecords
  /\ calls = <<>>
  /\ boot = "mount"
  /\ lastOp = NoOp
  /\ prev = NoSnapshot
  /\ alertMsg = ""
  /\ confirmMsg = <<>>
  /\ budget = 0
  /\ stateWrites = 0
  /\ inserts = RecordLimit
  /\ edits = 0
  /\ writeFailed = FALSE

\* The history view and the save flow.
NextHist ==
  \/ mount
  \/ \E readFails \in BOOLEAN : loadDone(readFails)
  \/ \E writeOk \in BOOLEAN : seedDone(writeOk)
  \/ render
  \/ \E d \in DateTexts : setDateISO(d)
  \/ saveAreaInventory
  \/ refreshRecords
  \/ \E i \in 1..2 : viewRecord(i)
  \/ \E i \in 1..2, confirmed \in BOOLEAN : deleteRecord(i, confirmed)
  \/ \E k \in 1..MaxCalls, writeOk \in BOOLEAN : saveStateDone(k, writeOk)
  \/ \E k \in 1..MaxCalls, insertOk \in BOOLEAN : insertDone(k, insertOk)
  \/ \E k \in 1..MaxCalls, readOk \in BOOLEAN : fetchAnswer(k, readOk)
  \/ \E k \in 1..MaxCalls : fetchDone(k)
  \/ \E k \in 1..MaxCalls, deleteOk \in BOOLEAN : deleteDone(k, deleteOk)

SpecHist == InitHist /\ [][NextHist]_vars

\* ------------------------------------------------------------------ claims

UI(s) == [areas |-> s.areas, items |-> s.items, quantities |-> s.quantities]

\* One row per item, one entry per area in every row.
WellFormed(s) ==
  /\ Len(s.quantities) = Len(s.items)
  /\ \A r \in 1..Len(s.quantities) : Len(s.quantities[r]) = Len(s.areas)

Ran(name) == lastOp.op = name /\ lastOp.ok

\* C1: the state adopted at startup is well formed, and addArea, addItem,
\* removeArea and removeItem each take a well-formed state to a well-formed
\* state: one row per item, one entry per area in every row.
C1_StructuralOpsKeepShape ==
  /\ lastOp.op = "loadState" => WellFormed(Current)
  /\ (Ran("addArea") \/ Ran("addItem") \/ Ran("removeArea") \/ Ran("removeItem"))
       /\ WellFormed(prev) => WellFormed(Current)

C1_Witness ==
  /\ Ran("removeArea") /\ WellFormed(prev)
  /\ Len(areas) = 3 /\ Len(items) = 3 /\ Len(prev.areas) = 4

\* C2: in the state an accepted addArea leaves, a confirmed removeArea of the
\* area just added sets areas, items and quantities back to what they were
\* before the add.
C2_AddThenRemoveRestores ==
  Ran("addArea") => removeAreaNs(Len(areas) - 1) = UI(prev)

\* C3 as stated: a confirmed removeArea leaves the sum of all quantities unchanged.
C3_RemoveAreaKeepsTotal ==
  Ran("removeArea") => grand = grandOf(prev.areas, prev.quantities)

\* C3 amended: removeArea(c) only discards: column c is deleted from every row,
\* every other entry keeps its value and order, and the sum of all quantities
\* drops by exactly column c's total.
C3_RemoveAreaDiscardsColumn ==
  Ran("removeArea") =>
    /\ \A r \in 1..Len(prev.quantities) :
         quantities[r] = Splice1(prev.quantities[r], lastOp.idx)
    /\ grand = grandOf(prev.areas, prev.quantities)
                 - colTotalOf(prev.quantities, lastOp.idx)

C3_Witness ==
  Ran("removeArea") /\ colTotalOf(prev.quantities, lastOp.idx) > 0 /\ grand > 0

\* C4: an accepted renameArea or renameItem replaces the name at its index and
\* nothing else: lengths, order, thresholds and every quantity are unchanged.
C4_RenameChangesOnlyTheName ==
  /\ Ran("renameArea") =>
       /\ Len(areas) = Len(prev.areas)
       /\ \A j \in 1..Len(areas) : j # lastOp.idx + 1 => areas[j] = prev.areas[j]
       /\ areas[lastOp.idx + 1] # prev.areas[lastOp.idx + 1]
       /\ items = prev.items
       /\ quantities = prev.quantities
  /\ Ran("renameItem") =>
       /\ Len(items) = Len(prev.items)
       /\ \A j \in 1..Len(items) : j # lastOp.idx + 1 => items[j] = prev.items[j]
       /\ items[lastOp.idx + 1].name # prev.items[lastOp.idx + 1].name
       /\ items[lastOp.idx + 1].threshold = prev.items[lastOp.idx + 1].threshold
       /\ areas = prev.areas
       /\ quantities = prev.quantities

C4_Witness ==
  /\ Ran("renameArea") /\ lastOp.idx = 1 /\ Len(areas) = 4
  /\ areas[2] = "Pool" /\ quantities[2][2] = 40

PosOf(seq, x) == CHOOSE j \in 1..Len(seq) : seq[j] = x

\* C5: after a drop that reorders areas or items, the quantity found under
\* every (item name, area name) pair is the one found under it before.
C5_ReorderKeepsAssociation ==
  Ran("onDropArea") \/ Ran("onDropItem") =>
    \A r \in 1..Len(prev.items), c \in 1..Len(prev.areas) :
      /\ prev.items[r] \in Range(items)
      /\ prev.areas[c] \in Range(areas)
      /\ At(quantities[PosOf(items, prev.items[r])], PosOf(areas, prev.areas[c]) - 1)
           = At(prev.quantities[r], c - 1)

\* ----- quantity edits and writes

\* The component is at rest: the page is shown, the last handler has returned
\* and no call is in flight, so nothing is left that could still write.
Idle == boot = "done" /\ lastOp = NoOp /\ calls = <<>>

\* The call a handler has just sent.
Sent == calls[Len(calls)]

\* C6 as stated: quantity edits get written without anything else being done
\* (once the component is at rest no edit is left unwritten), and the write
\* that takes them is a single upsert carrying the state after the last edit.
C6_EditsFlushThemselves ==
  /\ Idle => edits = 0
  /\ Ran("matrixBlur") /\ prev.edits > 0 =>
       stateWrites = prev.stateWrites + 1 /\ Sent.ns = Current

\* C6 amended: a quantity edit sends nothing and counts as unwritten; the blur
\* of a matrix cell or Save Inventory then issues exactly one upsert, which
\* carries the state the edits left, and no edit remains unwritten.
C6_EditsWrittenOnceOnBlurOrSave ==
  /\ Ran("areaQtyChange") \/ Ran("matrixQtyChange") =>
       /\ stateWrites = prev.stateWrites
       /\ calls = prev.calls
       /\ edits = prev.edits + 1
  /\ Ran("matrixBlur") \/ Ran("saveAreaInventory") =>
       /\ stateWrites = prev.stateWrites + 1
       /\ calls = Append(prev.calls, Sent)
       /\ Sent.pc = "upsert"
       /\ Sent.ns = UI(prev) /\ Sent.ns = Current
       /\ edits = 0

C6_Witness ==
  Ran("matrixBlur") /\ prev.edits = 2 /\ quantities # prev.remoteState[1].quantities

\* ----- area-dated save flow

\* seq without its k-th element
Without(seq, k) == [j \in 1..(Len(seq) - 1) |-> IF j < k THEN seq[j] ELSE seq[j + 1]]

\* The continuation that just ran belonged to the save flow at position k of
\* the calls, and the flow went on (Advanced) or ended (Ended) with it.
Advanced(k) ==
  /\ k \in 1..Len(calls) /\ Len(calls) = Len(prev.calls)
  /\ calls[k].kind = "saveArea" /\ calls[k] # prev.calls[k]
Ended(k) ==
  /\ k \in 1..Len(prev.calls)
  /\ prev.calls[k].kind = "saveArea" /\ calls = Without(prev.calls, k)

\* The record matches the flow's closure: the selected area's name, the chosen
\* date, and every item's name with its quantity in the selected column of the
\* matrix the flow persisted.
RecordOf(row, flow) ==
  /\ row.area_name = flow.ns.areas[flow.idx + 1]
  /\ row.area_index = flow.idx
  /\ row.inventory_date = flow.date
  /\ Len(row.items) = Len(flow.ns.items)
  /\ \A r \in 1..Len(row.items) :
       /\ row.items[r].name = flow.ns.items[r].name
       /\ row.items[r].qty =
            (IF r <= Len(flow.ns.quantities)
                  /\ flow.idx < Len(flow.ns.quantities[r])
                  /\ flow.ns.quantities[r][flow.idx + 1] # Undefined
             THEN flow.ns.quantities[r][flow.idx + 1] ELSE 0)

NewestFirst(rows) ==
  \A i, j \in 1..Len(rows) : i < j => rows[i].created_at > rows[j].created_at

C8_FailedStateWriteAborts ==
  lastOp.op = "saveStateDone" /\ ~lastOp.ok =>
    /\ \E k \in 1..Len(prev.calls) : Ended(k) /\ prev.calls[k].pc = "upsert"
    /\ alertMsg = "Could not save. Check Supabase credentials/RLS."
    /\ remoteHist = prev.remoteHist /\ inserts = prev.inserts
    /\ remoteState = prev.remoteState
    /\ Current = UI(prev)

C8_Witness ==
  /\ lastOp.op = "saveStateDone" /\ ~lastOp.ok
  /\ remoteState # <<>> /\ quantities # remoteState[1].quantities
  /\ remoteHist = <<>>

\* ----- startup

\* The initial load found the document.
LoadedDoc == lastOp.op = "loadState" /\ lastOp.ok /\ prev.remoteState # <<>>
\* The initial load found no document, or its read failed.
LoadedNothing == lastOp.op = "loadState" /\ (~lastOp.ok \/ prev.remoteState = <<>>)

\* C9 as stated: the document found at startup becomes the state and is
\* written to localStorage.
C9_LoadedDocIsCached ==
  LoadedDoc => Current = prev.remoteState[1] /\ localStorage = prev.remoteState

\* C9 amended: the document found at startup becomes the state, the page is
\* shown, and nothing is written: localStorage and the stored document are
\* untouched and no upsert is issued.
C9_LoadedDocIsAdopted ==
  LoadedDoc =>
    /\ Current = prev.remoteState[1]
    /\ ~loading /\ boot = "done"
    /\ localStorage = prev.localStorage
    /\ remoteState = prev.remoteState /\ stateWrites = prev.stateWrites

C9_Witness == LoadedDoc /\ Len(items) = 2 /\ localStorage # <<>>

\* C10 as stated: with no document found (or a failed read), a document in
\* localStorage is adopted; the default state is adopted only without one.
C10_CacheBeforeDefault ==
  LoadedNothing =>
    Current = (IF localStorage # <<>> THEN localStorage[1] ELSE seed)

\* C10 amended: with no document found (or a failed read) the default state
\* is adopted whatever localStorage holds, and one upsert of it is issued; when
\* that write is answered the page is shown with the default state, nothing is
\* reported, and the stored document is the default only if the write succeeded.
C10_DefaultAdoptedBestEffort ==
  /\ LoadedNothing =>
       /\ Current = seed /\ boot = "seeding"
       /\ stateWrites = prev.stateWrites + 1
       /\ localStorage = prev.localStorage
  /\ lastOp.op = "seedState" =>
       /\ Current = seed /\ ~loading /\ boot = "done" /\ alertMsg = ""
       /\ remoteState = (IF lastOp.ok THEN <<ToJson(seed)>> ELSE prev.remoteState)
       /\ localStorage = prev.localStorage

C10_Witness ==
  lastOp.op = "seedState" /\ ~lastOp.ok /\ localStorage # <<>> /\ remoteState = <<>>

\* ------------------------------------------------------ structural edits

StructuralOps ==
  {"addArea", "addItem", "removeArea", "removeItem", "renameArea", "renameItem",
   "onDropArea", "onDropItem"}

\* C11: an add or a rename whose name is empty after trimming, or is already
\* in use, changes nothing: areas, items and quantities are the ones the
\* handler started from and no write is issued.
C11_RejectedEditChangesNothing ==
  (lastOp.op \in {"addArea", "addItem", "renameArea", "renameItem"} /\ ~lastOp.ok) =>
    /\ Current = UI(prev)
    /\ calls = prev.calls
    /\ stateWrites = prev.stateWrites
    /\ saving = prev.saving
    /\ remoteState = prev.remoteState

C11_Witness ==
  /\ lastOp.op = "renameItem" /\ ~lastOp.ok
  /\ alertMsg = "Item name already in use."
  /\ Len(items) >= 2

\* Case folding of the names the exploration uses, written out by hand.
Fold(s) ==
  CASE s \in {"Broom", "BROOM", "broom"} -> "b"
    [] s \in {"Towels"}                  -> "t"
    [] s \in {"Pencils"}                 -> "p"
    [] s \in {"Mop", "Mop "}             -> "m"
    [] OTHER                             -> s

\* C12: item names stay distinct up to letter case, and an accepted Add Item
\* appends one item with the trimmed name and the given threshold, and one
\* row of zeros as long as the list of areas; areas and the other rows stay.
C12_AddItemAppendsZeroRow ==
  /\ boot = "done" =>
       \A i, j \in 1..Len(items) :
         i # j => Fold(items[i].name) # Fold(items[j].name)
  /\ Ran("addItem") =>
       /\ areas = prev.areas
       /\ Len(items) = Len(prev.items) + 1
       /\ \A i \in 1..Len(prev.items) : items[i] = prev.items[i]
       /\ items[Len(items)].name \in {"Mop", "BROOM"}
       /\ items[Len(items)].threshold \in Thresholds
       /\ Len(quantities) = Len(prev.quantities) + 1
       /\ \A r \in 1..Len(prev.quantities) : quantities[r] = prev.quantities[r]
       /\ quantities[Len(quantities)] = [c \in 1..Len(areas) |-> 0]

C12_Witness ==
  /\ Ran("addItem")
  /\ items[Len(items)] = [name |-> "Mop", threshold |-> 4]
  /\ quantities[Len(quantities)] = <<0, 0, 0, 0>>

\* C13: area names stay distinct, and an accepted Add Area appends the
\* trimmed name and one zero to every row; items and the other cells stay.
C13_AddAreaAppendsZeroColumn ==
  /\ boot = "done" =>
       \A i, j \in 1..Len(areas) : i # j => areas[i] # areas[j]
  /\ Ran("addArea") =>
       /\ items = prev.items
       /\ areas = Append(prev.areas, areas[Len(areas)])
       /\ areas[Len(areas)] \in {"Pool", "Kitchen"}
       /\ Len(quantities) = Len(prev.quantities)
       /\ \A r \in 1..Len(quantities) :
            quantities[r] = Append(prev.quantities[r], 0)

C13_Witness ==
  /\ Ran("addArea")
  /\ areas = <<"Kitchen", "Spa", "Front desk", "Office", "Pool">>
  /\ quantities[2] = <<20, 40, 0, 0, 0>>

\* C14 as stated: when the write a structural edit issued fails, the failure
\* is reported and the state on screen stays the edited one.
C14_FailedStructuralWriteReported ==
  (lastOp.op = "persistDone" /\ ~lastOp.ok) =>
    \A k \in 1..Len(prev.calls) :
      (/\ calls = Without(prev.calls, k)
       /\ prev.calls[k].kind = "persist"
       /\ prev.calls[k].by \in StructuralOps)
      => (alertMsg # "" /\ Current = UI(prev))

\* C15: every accepted structural edit issues exactly one write of the
\* inventory-state document, carrying the state the edit produced.
C15_StructuralEditWritesNewState ==
  (lastOp.ok /\ lastOp.op \in StructuralOps) =>
    /\ stateWrites = prev.stateWrites + 1
    /\ calls = Append(prev.calls, Sent)
    /\ Sent.kind = "persist" /\ Sent.pc = "upsert"
    /\ Sent.by = lastOp.op
    /\ Sent.ns = Current
    /\ saving

C15_Witness ==
  /\ Ran("renameItem")
  /\ Sent.ns.items[lastOp.idx + 1].name = "Mop"
  /\ prev.items[lastOp.idx + 1].name # "Mop"

\* C16 as stated: a declined Delete issues nothing; an accepted one issues
\* one delete of that record; when it succeeds the record leaves the list and
\* the detail view does not go on showing it; when it fails an alert is shown
\* and the list and the detail view stay.
C16_DeleteRecordContract ==
  /\ (lastOp.op = "deleteRecord" /\ ~lastOp.ok) =>
       calls = prev.calls /\ records = prev.records
  /\ Ran("deleteRecord") =>
       /\ calls = Append(prev.calls, Sent)
       /\ Sent.kind = "delete" /\ Sent.id = lastOp.idx
       /\ records = prev.records
  /\ (lastOp.op = "deleteDone" /\ lastOp.ok) =>
       /\ \A j \in 1..Len(records) : records[j].id # lastOp.idx
       /\ recordDetail = <<>> \/ recordDetail[1].id # lastOp.idx
  /\ (lastOp.op = "deleteDone" /\ ~lastOp.ok) =>
       /\ alertMsg = "Could not delete record."
       /\ records = prev.records
       /\ recordDetail = prev.recordDetail

\* The number of writes of the inventory-state document in flight.
PendingWrites(cs) == Cardinality({k \in 1..Len(cs) : cs[k].pc = "upsert"})

WritingOps == StructuralOps \cup {"matrixBlur", "saveAreaInventory"}

\* C17 as stated: at most one write of the inventory-state document is in
\* flight at a time.
C17_AtMostOneWritePending == PendingWrites(calls) <= 1

\* C17 amended: writes of the inventory-state document are not serialised.
\* Every handler that writes starts its own upsert whatever is in flight, and
\* each successful answer replaces the stored document by that write's
\* payload, so the last write answered wins.
C17_WritesOverlapLastAnswerWins ==
  /\ (lastOp.ok /\ lastOp.op \in WritingOps) =>
       /\ PendingWrites(calls) = PendingWrites(prev.calls) + 1
       /\ stateWrites = prev.stateWrites + 1
  /\ (lastOp.op = "persistDone" /\ lastOp.ok) =>
       \E k \in 1..Len(prev.calls) :
         /\ calls = Without(prev.calls, k)
         /\ prev.calls[k].pc = "upsert"
         /\ remoteState = <<ToJson(prev.calls[k].ns)>>

C17_Witness ==
  /\ lastOp.ok /\ lastOp.op \in StructuralOps
  /\ PendingWrites(calls) = 2
  /\ calls[1].ns # calls[2].ns

\* C18 as stated: every quantity in the matrix is a whole number that is not
\* negative.
C18_CellsAreNaturals ==
  \A r \in 1..Len(quantities) :
    \A c \in 1..Len(quantities[r]) : quantities[r][c] \in Nat

\* The total of the row a Remove Item was asked for, before the handler ran.
RowTotalBefore ==
  IF lastOp.idx >= 0 /\ lastOp.idx < Len(prev.quantities)
  THEN SumSeq(prev.quantities[lastOp.idx + 1]) ELSE 0

\* C19 as stated: Remove Item asks for confirmation, naming the total of the
\* item's row when it is above zero; accepted, the item and its row leave and
\* everything else keeps its place; declined, nothing changes.
C19_RemoveItemConfirmsWithTotal ==
  /\ lastOp.op = "removeItem" =>
       /\ confirmMsg # <<>>
       /\ RowTotalBefore > 0 =>
            Len(confirmMsg) = 3 /\ confirmMsg[3] = RowTotalBefore
  /\ Ran("removeItem") =>
       /\ areas = prev.areas
       /\ items = FilterIndex(prev.items, lastOp.idx)
       /\ quantities = FilterIndex(prev.quantities, lastOp.idx)
  /\ (lastOp.op = "removeItem" /\ ~lastOp.ok) =>
       Current = UI(prev) /\ calls = prev.calls

\* C20: Remove Area asks for confirmation; accepted, the area and its entry
\* in every row leave and every other name and cell keeps its value and
\* order, items untouched; declined, nothing changes and nothing is written.
C20_RemoveAreaDropsOneColumn ==
  /\ lastOp.op = "removeArea" =>
       /\ Len(confirmMsg) = 2
       /\ confirmMsg[2] = prev.areas[lastOp.idx + 1]
  /\ Ran("removeArea") =>
       /\ items = prev.items
       /\ Len(areas) = Len(prev.areas) - 1
       /\ \A j \in 1..Len(areas) :
            areas[j] = prev.areas[IF j <= lastOp.idx THEN j ELSE j + 1]
       /\ Len(quantities) = Len(prev.quantities)
       /\ \A r \in 1..Len(quantities) :
            /\ Len(quantities[r]) =
                 (IF lastOp.idx < Len(prev.quantities[r])
                  THEN Len(prev.quantities[r]) - 1 ELSE Len(prev.quantities[r]))
            /\ \A j \in 1..Len(quantities[r]) :
                 quantities[r][j] =
                   prev.quantities[r][IF j <= lastOp.idx THEN j ELSE j + 1]
  /\ (lastOp.op = "removeArea" /\ ~lastOp.ok) =>
       /\ Current = UI(prev)
       /\ calls = prev.calls
       /\ stateWrites = prev.stateWrites

C20_Witness ==
  /\ Ran("removeArea") /\ lastOp.idx = 1
  /\ Len(prev.areas) = 4
  /\ quantities[2] = <<20, 0, 0>>

\* ------------------------------------------------------------------ totals

\* The sum of every cell the matrix holds.
AllCells == SumSeq([r \in 1..Len(quantities) |-> SumSeq(quantities[r])])

\* The sum of entry c of every row.
ColumnSum(c) ==
  SumSeq([r \in 1..Len(quantities) |->
            IF c <= Len(quantities[r]) THEN quantities[r][c] ELSE 0])

\* C21 as stated: in every state each row total is the sum of the item's row,
\* each column total the sum of the area's column, and the grand total the
\* sum of all cells, so the row totals and the column totals add up alike.
C21_TotalsAgree ==
  boot = "done" =>
    /\ \A r \in 1..Len(items) :
         r <= Len(quantities) => rowTotals[r] = SumSeq(quantities[r])
    /\ \A c \in 1..Len(areas) : colTotals[c] = ColumnSum(c)
    /\ grand = AllCells
    /\ SumSeq(rowTotals) = SumSeq(colTotals)

\* C22: when the state write of a save flow succeeded and its insert fails,
\* the stored document is left as the write made it, no record is added to
\* the store, the in-memory list stays, and the failure is reported.
C22_FailedInsertKeepsWrittenState ==
  /\ Ran("saveStateDone") =>
       \E k \in 1..Len(calls) :
         Advanced(k) /\ remoteState = <<ToJson(calls[k].ns)>>
  /\ (lastOp.op = "insertDone" /\ ~lastOp.ok) =>
       /\ \E k \in 1..Len(prev.calls) : Ended(k) /\ prev.calls[k].pc = "insert"
       /\ remoteState = prev.remoteState
       /\ remoteHist = prev.remoteHist
       /\ inserts = prev.inserts
       /\ records = prev.records
       /\ Current = UI(prev)
       /\ alertMsg = "Could not save. Check Supabase credentials/RLS."

C22_Witness ==
  /\ lastOp.op = "insertDone" /\ ~lastOp.ok
  /\ remoteState = <<ToJson(Current)>>
  /\ Len(quantities) >= 1 /\ Len(quantities[1]) >= 1 /\ quantities[1][1] = 7
  /\ remoteHist = <<>>

\* C24: a stored record never changes: after any step, every row of the
\* history store that was there before the step is there unchanged or gone,
\* and no two rows share an id.
C24_StoredRecordsNeverChange ==
  [][/\ \A j \in 1..Len(remoteHist') :
          \A i \in 1..Len(remoteHist) :
            remoteHist'[j].id = remoteHist[i].id => remoteHist'[j] = remoteHist[i]
     /\ \A i, j \in 1..Len(remoteHist') :
          i # j => remoteHist'[i].id # remoteHist'[j].id]_vars

C24_Witness ==
  /\ Ran("renameArea")
  /\ Len(remoteHist) >= 1
  /\ remoteHist[1].area_index = lastOp.idx
  /\ remoteHist[1].area_name = prev.areas[lastOp.idx + 1]
  /\ remoteHist[1].area_name # areas[lastOp.idx + 1]

\* C26 as stated: a quantity edit never writes to a column outside the
\* current areas, so it takes a well-formed state to a well-formed state.
C26_QuantityEditsKeepShape ==
  (Ran("areaQtyChange") \/ Ran("matrixQtyChange")) =>
    /\ lastOp.idx < Len(areas)
    /\ WellFormed(prev) => WellFormed(Current)

\* C27 as stated: the seed is written to the state store only when the store
\* holds no document.
C27_SeedNeverOverwrites ==
  (lastOp.op = "seedState" /\ lastOp.ok) => prev.remoteState = <<>>

\* C29 as stated: the saving flag is true whenever a persist or a save flow
\* is in flight.
C29_SavingWhileInFlight ==
  (\E k \in 1..Len(calls) : calls[k].kind \in {"persist", "saveArea"}) => saving

\* C30: saveAreaInventory goes on only when areas[areaIdx] exists and a date
\* is set; then it issues one state write. Otherwise it issues nothing,
\* inserts nothing and leaves the state as it was.
C30_SaveNeedsAreaAndDate ==
  /\ lastOp.op = "saveAreaInventory" =>
       (lastOp.ok <=> (areaIdx >= 0 /\ areaIdx < Len(areas) /\ dateISO # ""))
  /\ Ran("saveAreaInventory") =>
       /\ calls = Append(prev.calls, Sent)
       /\ Sent.kind = "saveArea" /\ Sent.pc = "upsert"
       /\ Sent.ns = Current /\ Sent.idx = areaIdx /\ Sent.date = dateISO
       /\ stateWrites = prev.stateWrites + 1
  /\ (lastOp.op = "saveAreaInventory" /\ ~lastOp.ok) =>
       /\ calls = prev.calls
       /\ stateWrites = prev.stateWrites
       /\ inserts = prev.inserts
       /\ remoteState = prev.remoteState
       /\ remoteHist = prev.remoteHist
       /\ Current = UI(prev)
       /\ records = prev.records
       /\ saving = prev.saving

C30_Witness ==
  /\ lastOp.op = "saveAreaInventory" /\ ~lastOp.ok
  /\ alertMsg = "Choose an area."
  /\ areaIdx >= Len(areas)
  /\ stateWrites >= 1

\* C28 as stated: when every upsert issued so far succeeded, once the last one
\* in flight is answered and no quantity edit waits to be written, the stored
\* document is the in-memory state.
C28_StoredDocFollowsMemory ==
  (/\ lastOp.op \in {"persistDone", "saveStateDone"} /\ lastOp.ok
   /\ ~writeFailed
   /\ PendingWrites(calls) = 0
   /\ edits = 0)
  => remoteState = <<ToJson(Current)>>

\* ----------------------------------------------------------------- listing

\* The number of rows of hist created after row j.
NewerThan(hist, j) ==
  Cardinality({i \in 1..Len(hist) : hist[i].created_at > hist[j].created_at})

\* The n most recent rows of hist, the most recent first.
MostRecent(hist, n) ==
  [p \in 1..(IF Len(hist) < n THEN Len(hist) ELSE n) |->
     hist[CHOOSE j \in 1..Len(hist) : NewerThan(hist, j) = p - 1]]

====
